---- MODULE Spec2Model ----
(***************************************************************************)
(* ons_geoportal/api.py: get_boundaries and its helpers.                   *)
(*                                                                         *)
(* One call of get_boundaries is followed statement by statement (pc is    *)
(* the position in the function body).  The helpers _check_layer_types,    *)
(* _get_census_boundaries, _get_admin_boundaries and _format_params are    *)
(* operators; they are also called directly, as a unit test would call     *)
(* them, by the Unit* actions.                                             *)
(*                                                                         *)
(* Python values:                                                          *)
(*   - a str is a TLA+ string, an int a TLA+ integer;                      *)
(*   - the cols argument, which is a str or a list of str, is tagged:      *)
(*       [kind |-> "str", s |-> ...]  or  [kind |-> "list", l |-> <<..>>]  *)
(*   - a function either returns or raises:                                *)
(*       [ok |-> TRUE, val |-> ...]  or  [ok |-> FALSE, err |-> Raise(..)] *)
(***************************************************************************)
EXTENDS Integers, Sequences, FiniteSets, TLC

VARIABLES
    pc,        \* position in get_boundaries
    args,      \* the six arguments of the call in progress
    boundary,  \* local: category path segment
    geom,      \* local: dataset path segment
    fields,    \* local: field list of the boundary
    layer,     \* local: layer index
    params,    \* the mapping built by _format_params for the request
    url,       \* the URL handed to get()
    gets,      \* number of get() calls issued by the call in progress
    response,  \* the response object get() returned
    result,    \* outcome of the call: nothing yet, a GeoDataFrame, an exception
    checked,   \* the checks evaluated so far by the call in progress, in order
    unit       \* the last direct call of a helper and its outcome

vars == <<pc, args, boundary, geom, fields, layer, params, url, gets,
          response, result, checked, unit>>

----------------------------------------------------------------------------
(* Bounds of the model *)

\* longest explicit column list passed as cols
MaxCols == 2

\* largest number of features in a response body
MaxFeatures == 1

----------------------------------------------------------------------------
(* Outcomes *)

None == [kind |-> "none"]

Raise(exc, about, status) ==
    [kind |-> "raise", exc |-> exc, about |-> about, status |-> status]

Return(v) == [ok |-> TRUE, val |-> v]

Raises(e) == [ok |-> FALSE, err |-> e]

\* geopandas.GeoDataFrame.from_features(features, crs=crs): one row per feature
GeoDataFrame(n, crs) == [kind |-> "frame", n |-> n, crs |-> crs]

----------------------------------------------------------------------------
(* Python built-ins used by the code *)

UpperChars == <<"A","B","C","D","E","F","G","H","I","J","K","L","M",
                "N","O","P","Q","R","S","T","U","V","W","X","Y","Z">>

LowerChars == <<"a","b","c","d","e","f","g","h","i","j","k","l","m",
                "n","o","p","q","r","s","t","u","v","w","x","y","z">>

lower_char(c) ==
    IF \E i \in 1..Len(UpperChars) : UpperChars[i] = c
    THEN LowerChars[CHOOSE i \in 1..Len(UpperChars) : UpperChars[i] = c]
    ELSE c

RECURSIVE lower(_)
\* str.lower()
lower(s) ==
    IF Len(s) = 0 THEN ""
    ELSE lower_char(SubSeq(s, 1, 1)) \o lower(SubSeq(s, 2, Len(s)))

RECURSIVE join(_)
\* ", ".join(list)
join(l) ==
    IF Len(l) = 0 THEN ""
    ELSE IF Len(l) = 1 THEN l[1]
    ELSE l[1] \o ", " \o join(Tail(l))

Digits == <<"0","1","2","3","4","5","6","7","8","9">>

RECURSIVE str_int(_)
\* f"{n}" for an int n
str_int(n) ==
    IF n < 0 THEN "-" \o str_int(0 - n)
    ELSE IF n < 10 THEN Digits[n + 1]
    ELSE str_int(n \div 10) \o Digits[(n % 10) + 1]

----------------------------------------------------------------------------
(* Tables of api.py *)

census_types == {"lsoa"}

admin_types == {"lad"}

\* bug: 4277 (OSGB36 geographic) let through
epsg_with_4277 == {4326, 3857, 27700, 4277}

epsg == {4326, 3857, 27700}

\* bug: range(1, 9), the upper bound taken as inclusive
precision_range_inclusive == 1..8

\* range(1, 8)
precision_range == 1..7

layer_types ==
    <<"full clipped", "full extent", "generalised clipped",
      "super generalised clipped">>

census_fields ==
    <<"objectid", "lsoa11cd", "lsoa11nm", "shape", "st_area", "st_length">>

admin_fields ==
    <<"objectid", "lad18cd", "lad18nm", "shape", "st_area", "st_length">>

Elems(l) == {l[i] : i \in 1..Len(l)}

----------------------------------------------------------------------------
(* Helpers of api.py *)

\* bug: the position counted from 1
_check_layer_types_one_based(layer_type) ==
    IF layer_type = layer_types[1] THEN Return(1)
    ELSE IF layer_type = layer_types[2] THEN Return(2)
    ELSE IF layer_type = layer_types[3] THEN Return(3)
    ELSE IF layer_type = layer_types[4] THEN Return(4)
    ELSE Raises(Raise("ValueError", "layer_type", 0))

_check_layer_types(layer_type) ==
    IF layer_type = layer_types[1] THEN Return(0)
    ELSE IF layer_type = layer_types[2] THEN Return(1)
    ELSE IF layer_type = layer_types[3] THEN Return(2)
    ELSE IF layer_type = layer_types[4] THEN Return(3)
    ELSE Raises(Raise("ValueError", "layer_type", 0))

_get_census_boundaries(geom_type) ==
    IF geom_type = "lsoa"
    THEN Return([boundary |-> "Census_Boundaries/",
                 geom |-> "Lower_Super_Output_Areas_December_2011_Boundaries/",
                 fields |-> census_fields])
    ELSE Raises(Raise("ValueError", "geom_type", 0))

\* bug: the field list copied from the census helper
_get_admin_boundaries_census_fields(geom_type) ==
    IF geom_type = "lad"
    THEN Return([boundary |-> "Administrative_Boundaries/",
                 geom |-> "Local_Authority_Districts_December_2018_Boundaries_UK_BGC/",
                 fields |-> census_fields])
    ELSE Raises(Raise("ValueError", "geom_type", 0))

_get_admin_boundaries(geom_type) ==
    IF geom_type = "lad"
    THEN Return([boundary |-> "Administrative_Boundaries/",
                 geom |-> "Local_Authority_Districts_December_2018_Boundaries_UK_BGC/",
                 fields |-> admin_fields])
    ELSE Raises(Raise("ValueError", "geom_type", 0))

\* lines 44-50 of get_boundaries: the dispatch on geom_type
resolve_boundary(geom_type) ==
    IF geom_type \in census_types THEN _get_census_boundaries(geom_type)
    ELSE IF geom_type \in admin_types THEN _get_admin_boundaries(geom_type)
    ELSE Raises(Raise("ValueError", "geom_type", 0))

\* lines 206-210: the membership check, made for a list only
cols_rejected(cols, fs) ==
    /\ cols.kind = "list"
    /\ ~ (\A i \in 1..Len(cols.l) : lower(cols.l[i]) \in Elems(fs))

\* bug: the names of a list are checked lowercased but joined as given
out_fields_unlowered(cols) ==
    IF cols.kind = "str"
    THEN IF lower(cols.s) = "all" THEN "*" ELSE lower(cols.s)
    ELSE join(cols.l)

\* lines 201-211: the value of the local cols after normalisation
out_fields(cols) ==
    IF cols.kind = "str"
    THEN IF lower(cols.s) = "all" THEN "*" ELSE lower(cols.s)
    ELSE join([i \in 1..Len(cols.l) |-> lower(cols.l[i])])

_format_params(cols, fs, where, crs, precision) ==
    IF cols_rejected(cols, fs)
    THEN Raises(Raise("ValueError", "cols", 0))
    ELSE Return([outFields |-> out_fields(cols),
                 where |-> where,
                 outSR |-> crs,
                 f |-> "geojson",
                 geometryPrecision |-> str_int(precision)])

\* lines 63-68: the URL of the request
query_url(b, g, l) ==
    "https://ons-inspire.esriuk.com/arcgis/rest/services/"
        \o b \o g \o "MapServer/" \o str_int(l) \o "/query"

\* bug: only server errors raise
raise_for_status_server_only(status) == status \in 500..599

\* requests' Response.raise_for_status(): HTTPError for 4xx and 5xx only
raise_for_status(status) == status \in 400..599

\* bug: a body without "features" is taken as having no features
from_features_default_empty(body, crs) ==
    IF body.kind = "malformed"
    THEN Raise("JSONDecodeError", "body", 0)
    ELSE GeoDataFrame(body.n, crs)

\* lines 74-77: response.json() raises on a body that is not JSON, ["features"]
\* raises KeyError on a body without that key, from_features builds the frame
from_features(body, crs) ==
    IF body.kind = "malformed"
    THEN Raise("JSONDecodeError", "body", 0)
    ELSE IF body.kind = "no_features"
    THEN Raise("KeyError", "features", 0)
    ELSE GeoDataFrame(body.n, crs)

----------------------------------------------------------------------------
(* Inputs *)

GeomTypeInputs == {"lsoa", "lad", "LSOA", "msoa"}

LayerTypeInputs == Elems(layer_types) \cup {"Full Clipped", "clipped"}

ColNameInputs == {"LSOA11CD", "objectid", "not_a_field"}

ColStrInputs == {"all", "ALL", "All", "lsoa11cd", "not_a_field"}

RECURSIVE SeqsUpTo(_, _)
SeqsUpTo(S, n) ==
    IF n = 0 THEN {<<>>}
    ELSE SeqsUpTo(S, n - 1)
         \cup {Append(q, x) : q \in {r \in SeqsUpTo(S, n - 1) : Len(r) = n - 1},
                              x \in S}

ColsInputs ==
    {[kind |-> "str", s |-> s] : s \in ColStrInputs}
    \cup {[kind |-> "list", l |-> l] : l \in SeqsUpTo(ColNameInputs, MaxCols)}

WhereInputs == {"1=1", "st_area(shape) > 282152900"}

CrsInputs == {4326, 3857, 27700, 4277}

PrecisionInputs == {-1, 0, 1, 5, 7, 8}

FieldsInputs == {census_fields, admin_fields}

StatusInputs == {200, 204, 304, 404, 500}

\* a response body: not JSON, JSON without "features", JSON with n features
BodyInputs ==
    {[kind |-> "malformed", n |-> 0], [kind |-> "no_features", n |-> 0]}
    \cup {[kind |-> "features", n |-> k] : k \in 0..MaxFeatures}

NoArgs ==
    [geom_type |-> "", layer_type |-> "", cols |-> [kind |-> "str", s |-> ""],
     where |-> "", crs |-> 0, precision |-> 0]

NoResponse == [status |-> 0, body |-> [kind |-> "malformed", n |-> 0]]

NoUnit == [fn |-> "none"]

----------------------------------------------------------------------------
(* State after import: no call in progress *)

Init ==
    /\ pc = "idle"
    /\ args = NoArgs
    /\ boundary = ""
    /\ geom = ""
    /\ fields = <<>>
    /\ layer = -1
    /\ params = None
    /\ url = ""
    /\ gets = 0
    /\ response = NoResponse
    /\ result = None
    /\ checked = <<>>
    /\ unit = NoUnit

----------------------------------------------------------------------------
(* get_boundaries, statement by statement *)

\* the caller invokes get_boundaries(geom_type, layer_type, cols, where, crs, precision)
Call ==
    /\ pc = "idle"
    /\ \E g \in GeomTypeInputs, lt \in LayerTypeInputs, c \in ColsInputs,
          w \in WhereInputs, e \in CrsInputs, p \in PrecisionInputs :
           args' = [geom_type |-> g, layer_type |-> lt, cols |-> c,
                    where |-> w, crs |-> e, precision |-> p]
    /\ pc' = "resolve_boundary"
    /\ boundary' = ""
    /\ geom' = ""
    /\ fields' = <<>>
    /\ layer' = -1
    /\ params' = None
    /\ url' = ""
    /\ gets' = 0
    /\ response' = NoResponse
    /\ result' = None
    /\ checked' = <<>>
    /\ unit' = NoUnit

\* lines 44-50
ResolveBoundary ==
    /\ pc = "resolve_boundary"
    /\ checked' = Append(checked, "geom_type")
    /\ LET r == resolve_boundary(args.geom_type) IN
        IF r.ok
        THEN /\ boundary' = r.val.boundary
             /\ geom' = r.val.geom
             /\ fields' = r.val.fields
             /\ pc' = "check_layer"
             /\ UNCHANGED result
        ELSE /\ result' = r.err
             /\ pc' = "done"
             /\ UNCHANGED <<boundary, geom, fields>>
    /\ UNCHANGED <<args, layer, params, url, gets, response, unit>>

\* line 52
CheckLayer ==
    /\ pc = "check_layer"
    /\ checked' = Append(checked, "layer_type")
    /\ LET r == _check_layer_types(args.layer_type) IN
        IF r.ok
        THEN /\ layer' = r.val
             /\ pc' = "check_crs"
             /\ UNCHANGED result
        ELSE /\ result' = r.err
             /\ pc' = "done"
             /\ UNCHANGED layer
    /\ UNCHANGED <<args, boundary, geom, fields, params, url, gets, response, unit>>

\* bug: the raise of lines 54-55 is missing
CheckCrs_no_raise ==
    /\ pc = "check_crs"
    /\ checked' = Append(checked, "crs")
    /\ pc' = "check_precision"
    /\ UNCHANGED <<args, boundary, geom, fields, layer, params, url, gets,
                   response, result, unit>>

\* lines 54-55
CheckCrs ==
    /\ pc = "check_crs"
    /\ checked' = Append(checked, "crs")
    /\ IF args.crs \notin epsg
       THEN /\ result' = Raise("ValueError", "crs", 0)
            /\ pc' = "done"
       ELSE /\ pc' = "check_precision"
            /\ UNCHANGED result
    /\ UNCHANGED <<args, boundary, geom, fields, layer, params, url, gets,
                   response, unit>>

\* lines 57-60
CheckPrecision ==
    /\ pc = "check_precision"
    /\ checked' = Append(checked, "precision")
    /\ IF args.precision \notin precision_range
       THEN /\ result' = Raise("ValueError", "precision", 0)
            /\ pc' = "done"
       ELSE /\ pc' = "format_params"
            /\ UNCHANGED result
    /\ UNCHANGED <<args, boundary, geom, fields, layer, params, url, gets,
                   response, unit>>

\* lines 63-69: the arguments of get() are evaluated, url first, then params
FormatParams ==
    /\ pc = "format_params"
    /\ checked' = Append(checked, "cols")
    /\ url' = query_url(boundary, geom, layer)
    /\ LET r == _format_params(args.cols, fields, args.where, args.crs,
                               args.precision) IN
        IF r.ok
        THEN /\ params' = r.val
             /\ pc' = "get"
             /\ UNCHANGED result
        ELSE /\ result' = r.err
             /\ pc' = "done"
             /\ UNCHANGED params
    /\ UNCHANGED <<args, boundary, geom, fields, layer, gets, response, unit>>

\* line 62: get(url=..., params=...) answers with any status and body, or
\* raises when no response arrives
Get ==
    /\ pc = "get"
    /\ gets' = gets + 1
    /\ \/ /\ \E s \in StatusInputs, b \in BodyInputs :
                response' = [status |-> s, body |-> b]
          /\ pc' = "raise_for_status"
          /\ UNCHANGED result
       \/ /\ result' = Raise("ConnectionError", "get", 0)
          /\ pc' = "done"
          /\ UNCHANGED response
    /\ UNCHANGED <<args, boundary, geom, fields, layer, params, url, checked, unit>>

\* line 72
RaiseForStatus ==
    /\ pc = "raise_for_status"
    /\ IF raise_for_status(response.status)
       THEN /\ result' = Raise("HTTPError", "status", response.status)
            /\ pc' = "done"
       ELSE /\ pc' = "from_features"
            /\ UNCHANGED result
    /\ UNCHANGED <<args, boundary, geom, fields, layer, params, url, gets,
                   response, checked, unit>>

\* lines 74-77: response.json()["features"], then GeoDataFrame.from_features
FromFeatures ==
    /\ pc = "from_features"
    /\ result' = from_features(response.body, args.crs)
    /\ pc' = "done"
    /\ UNCHANGED <<args, boundary, geom, fields, layer, params, url, gets,
                   response, checked, unit>>

\* the caller has the outcome; the locals of the call are gone
Finish ==
    /\ pc \in {"done", "unit_done"}
    /\ pc' = "idle"
    /\ args' = NoArgs
    /\ boundary' = ""
    /\ geom' = ""
    /\ fields' = <<>>
    /\ layer' = -1
    /\ params' = None
    /\ url' = ""
    /\ gets' = 0
    /\ response' = NoResponse
    /\ result' = None
    /\ checked' = <<>>
    /\ unit' = NoUnit

----------------------------------------------------------------------------
(* The helpers called directly *)

UnitRest ==
    /\ pc = "idle"
    /\ pc' = "unit_done"
    /\ UNCHANGED <<args, boundary, geom, fields, layer, params, url, gets,
                   response, result, checked>>

UnitFormatParams ==
    /\ UnitRest
    /\ \E c \in ColsInputs, fs \in FieldsInputs, w \in WhereInputs,
          e \in CrsInputs, p \in PrecisionInputs :
           unit' = [fn |-> "_format_params",
                    cols |-> c, fields |-> fs, where |-> w, crs |-> e,
                    precision |-> p,
                    out |-> _format_params(c, fs, w, e, p)]

UnitCheckLayerTypes ==
    /\ UnitRest
    /\ \E lt \in LayerTypeInputs :
           unit' = [fn |-> "_check_layer_types", layer_type |-> lt,
                    out |-> _check_layer_types(lt)]

UnitGetCensusBoundaries ==
    /\ UnitRest
    /\ \E g \in GeomTypeInputs :
           unit' = [fn |-> "_get_census_boundaries", geom_type |-> g,
                    out |-> _get_census_boundaries(g)]

UnitGetAdminBoundaries ==
    /\ UnitRest
    /\ \E g \in GeomTypeInputs :
           unit' = [fn |-> "_get_admin_boundaries", geom_type |-> g,
                    out |-> _get_admin_boundaries(g)]

----------------------------------------------------------------------------

Next ==
    \/ Call
    \/ ResolveBoundary
    \/ CheckLayer
    \/ CheckCrs
    \/ CheckPrecision
    \/ FormatParams
    \/ Get
    \/ RaiseForStatus
    \/ FromFeatures
    \/ Finish
    \/ UnitFormatParams
    \/ UnitCheckLayerTypes
    \/ UnitGetCensusBoundaries
    \/ UnitGetAdminBoundaries

Spec == Init /\ [][Next]_vars

----------------------------------------------------------------------------
(* What the specification calls supported *)

SupportedGeomTypes == {"lsoa", "lad"}

SupportedLayerTypes ==
    {"full clipped", "full extent", "generalised clipped",
     "super generalised clipped"}

SupportedCrs == {4326, 3857, 27700}

SupportedPrecision == 1..7

PrecisionStrings == <<"1", "2", "3", "4", "5", "6", "7">>

FieldsOf(g) == IF g = "lsoa" THEN census_fields ELSE admin_fields

IsAll(cols) == cols.kind = "str" /\ lower(cols.s) = "all"

RequestedNames(cols) == IF cols.kind = "str" THEN {cols.s} ELSE Elems(cols.l)

\* the sentinel "all", or names that are all fields of the boundary
ColsSupported(cols, fs) ==
    IsAll(cols) \/ \A n \in RequestedNames(cols) : lower(n) \in Elems(fs)

ArgsSupported(a) ==
    /\ a.geom_type \in SupportedGeomTypes
    /\ a.layer_type \in SupportedLayerTypes
    /\ a.crs \in SupportedCrs
    /\ a.precision \in SupportedPrecision
    /\ ColsSupported(a.cols, FieldsOf(a.geom_type))

CheckOrder == <<"geom_type", "layer_type", "crs", "precision", "cols">>

IsValueError(r) == r.kind = "raise" /\ r.exc = "ValueError"

\* every check of get_boundaries was made and none raised
ValidationPassed == checked = CheckOrder /\ ~ IsValueError(result)

\* get() returned a response object
ResponseReceived == gets > 0 /\ response # NoResponse

----------------------------------------------------------------------------
(* C1 *)

\* C1: a finished call has issued no GET when one of geometry type, layer
\* type, columns, CRS or precision is unsupported, and exactly one otherwise.
C1_GetsByValidity ==
    pc = "done" => gets = (IF ArgsSupported(args) THEN 1 ELSE 0)

----------------------------------------------------------------------------
(* C2 *)

\* C2: _format_params returns a mapping for columns other than "all" only
\* when every requested name, lowercased, is a field of the boundary; columns
\* naming another column end in a failure, and no request is sent for them.
C2_ColumnsRecognised ==
    /\ (unit.fn = "_format_params" /\ unit.out.ok /\ ~ IsAll(unit.cols))
          => \A n \in RequestedNames(unit.cols) : lower(n) \in Elems(unit.fields)
    /\ (unit.fn = "_format_params" /\ ~ ColsSupported(unit.cols, unit.fields))
          => ~ unit.out.ok
    /\ gets > 0 => ColsSupported(args.cols, fields)

----------------------------------------------------------------------------
(* C3 *)

\* C3 as stated: every response whose status is not 2xx ends the call in an
\* HTTPError carrying the status, after a single GET.
C3_NonSuccessFails ==
    (pc = "done" /\ ResponseReceived /\ response.status \notin 200..299)
        => /\ result = Raise("HTTPError", "status", response.status)
           /\ gets = 1

\* C3 amended: every response whose status is 4xx or 5xx ends the call in an
\* HTTPError carrying the status and no frame; a response with any other
\* status never ends in an HTTPError; no call issues a second GET.
C3_ErrorStatusFails ==
    /\ (pc = "done" /\ ResponseReceived /\ response.status \in 400..599)
          => /\ result = Raise("HTTPError", "status", response.status)
             /\ gets = 1
    /\ (pc = "done" /\ ResponseReceived /\ response.status \notin 400..599)
          => ~ (result.kind = "raise" /\ result.exc = "HTTPError")
    /\ gets <= 1

C3_Witness ==
    /\ pc = "done"
    /\ ResponseReceived
    /\ response.status = 404
    /\ result = Raise("HTTPError", "status", 404)
    /\ gets = 1

----------------------------------------------------------------------------
(* C4 *)

\* C4 as stated: a finished call has returned a frame or raised; it returned
\* a frame exactly when validation passed, the status was 2xx and the body
\* has "features", and the frame has the requested crs and the body's count.
C4_FrameOnlyOnSuccess ==
    pc = "done" =>
        /\ result.kind \in {"frame", "raise"}
        /\ result.kind = "frame" <=>
              /\ ValidationPassed
              /\ ResponseReceived
              /\ response.status \in 200..299
              /\ response.body.kind = "features"
        /\ result.kind = "frame" =>
              /\ result.crs = args.crs
              /\ result.n = response.body.n

\* C4 amended: as stated, with "the status was 2xx" replaced by "the status
\* was not 4xx or 5xx".
C4_FrameOrError ==
    pc = "done" =>
        /\ result.kind \in {"frame", "raise"}
        /\ result.kind = "frame" <=>
              /\ ValidationPassed
              /\ ResponseReceived
              /\ response.status \notin 400..599
              /\ response.body.kind = "features"
        /\ result.kind = "frame" =>
              /\ result.crs = args.crs
              /\ result.n = response.body.n

C4_Witness ==
    /\ pc = "done"
    /\ args.crs = 27700
    /\ response.status = 200
    /\ response.body.kind = "features"
    /\ response.body.n >= 1
    /\ result = [kind |-> "frame", n |-> response.body.n, crs |-> 27700]

----------------------------------------------------------------------------
(* C5 *)

----------------------------------------------------------------------------
(* C6 *)

\* C6 as stated: _format_params, called with valid columns, fails when crs or
\* precision is out of range, and never returns a mapping whose outSR or
\* geometryPrecision is out of range.
C6_FormatParamsValidates ==
    (unit.fn = "_format_params" /\ ColsSupported(unit.cols, unit.fields))
        => /\ (unit.crs \notin SupportedCrs \/ unit.precision \notin SupportedPrecision)
                 => /\ ~ unit.out.ok
                    /\ unit.out.err.about \in {"crs", "precision"}
           /\ unit.out.ok
                 => /\ unit.out.val.outSR \in SupportedCrs
                    /\ unit.out.val.geometryPrecision \in Elems(PrecisionStrings)

\* C6 amended: _format_params checks neither crs nor precision: called with
\* valid columns it returns a mapping carrying them as given; get_boundaries
\* makes both checks before it calls _format_params, so the mapping of a
\* request has outSR in the three codes and geometryPrecision in "1".."7".
C6_RangeCheckedByCaller ==
    /\ (unit.fn = "_format_params" /\ ColsSupported(unit.cols, unit.fields))
          => /\ unit.out.ok
             /\ unit.out.val.outSR = unit.crs
             /\ IF unit.precision \in SupportedPrecision
                THEN unit.out.val.geometryPrecision = PrecisionStrings[unit.precision]
                ELSE unit.out.val.geometryPrecision \notin Elems(PrecisionStrings)
    /\ params # None
          => /\ params.outSR \in SupportedCrs
             /\ params.geometryPrecision \in Elems(PrecisionStrings)
             /\ params.outSR = args.crs
             /\ params.geometryPrecision = PrecisionStrings[args.precision]

C6_Witness ==
    /\ unit.fn = "_format_params"
    /\ ColsSupported(unit.cols, unit.fields)
    /\ unit.crs = 4277
    /\ unit.precision = 8
    /\ unit.out.ok
    /\ unit.out.val.outSR = 4277
    /\ unit.out.val.geometryPrecision = "8"

----------------------------------------------------------------------------
(* C7 *)

ExpectedLayer(label) ==
    CASE label = "full clipped" -> 0
      [] label = "full extent" -> 1
      [] label = "generalised clipped" -> 2
      [] label = "super generalised clipped" -> 3

LayerDigits == <<"0", "1", "2", "3">>

\* C7: _check_layer_types returns 0, 1, 2, 3 for the four labels in order and
\* raises for every other label, a label differing in case included; the
\* layer index in the request URL is in 0..3.
C7_LayerIndex ==
    /\ unit.fn = "_check_layer_types" =>
          IF unit.layer_type \in SupportedLayerTypes
          THEN /\ unit.out.ok
               /\ unit.out.val = ExpectedLayer(unit.layer_type)
          ELSE /\ ~ unit.out.ok
               /\ unit.out.err = Raise("ValueError", "layer_type", 0)
    /\ url # "" =>
          /\ layer \in 0..3
          /\ layer = ExpectedLayer(args.layer_type)
          /\ SubSeq(url, Len(url) - 16, Len(url))
                = "MapServer/" \o LayerDigits[layer + 1] \o "/query"

C7_Witness ==
    /\ unit.fn = "_check_layer_types"
    /\ unit.layer_type = "super generalised clipped"
    /\ unit.out.ok
    /\ unit.out.val = 3

----------------------------------------------------------------------------
(* C8 *)

\* C8: the dispatch on geom_type raises for every type outside lsoa and lad;
\* lsoa gets the census category, dataset and fields, lad the administrative
\* ones; the two tables are disjoint.
C8_ResolveBoundary ==
    /\ census_types \cap admin_types = {}
    /\ pc \notin {"idle", "unit_done", "resolve_boundary"} =>
          IF args.geom_type = "lsoa"
          THEN /\ boundary = "Census_Boundaries/"
               /\ geom = "Lower_Super_Output_Areas_December_2011_Boundaries/"
               /\ fields = census_fields
          ELSE IF args.geom_type = "lad"
          THEN /\ boundary = "Administrative_Boundaries/"
               /\ geom = "Local_Authority_Districts_December_2018_Boundaries_UK_BGC/"
               /\ fields = admin_fields
          ELSE /\ pc = "done"
               /\ result = Raise("ValueError", "geom_type", 0)
               /\ checked = <<"geom_type">>
               /\ boundary = ""
               /\ geom = ""
               /\ fields = <<>>
    /\ unit.fn = "_get_census_boundaries" =>
          (unit.out.ok <=> unit.geom_type = "lsoa")
    /\ unit.fn = "_get_admin_boundaries" =>
          (unit.out.ok <=> unit.geom_type = "lad")

C8_Witness ==
    /\ pc = "check_layer"
    /\ args.geom_type = "lad"
    /\ boundary = "Administrative_Boundaries/"
    /\ fields = admin_fields

----------------------------------------------------------------------------
(* C9 *)

RECURSIVE JoinedFromLeft(_, _, _)
\* the names of l from position i on, lowercased, appended to acc
JoinedFromLeft(acc, l, i) ==
    IF i > Len(l) THEN acc
    ELSE JoinedFromLeft(acc \o ", " \o lower(l[i]), l, i + 1)

ExpectedOutFields(l) ==
    IF Len(l) = 0 THEN "" ELSE JoinedFromLeft(lower(l[1]), l, 2)

\* C9: outFields is "*" for "all" in any letter case, and for a list of
\* recognised names the names lowercased, in order, joined by commas; the
\* mapping has exactly the five keys, f is "geojson", where is the filter.
C9_Mapping ==
    /\ (unit.fn = "_format_params" /\ unit.out.ok) =>
          /\ DOMAIN unit.out.val
                = {"outFields", "where", "outSR", "f", "geometryPrecision"}
          /\ unit.out.val.f = "geojson"
          /\ unit.out.val.where = unit.where
          /\ (unit.cols.kind = "str" /\ unit.cols.s \in {"all", "ALL", "All"})
                => unit.out.val.outFields = "*"
          /\ unit.cols.kind = "list"
                => unit.out.val.outFields = ExpectedOutFields(unit.cols.l)
          /\ (unit.cols.kind = "list" /\ unit.cols.l = <<"LSOA11CD">>)
                => unit.out.val.outFields = "lsoa11cd"
          /\ (unit.cols.kind = "list" /\ unit.cols.l = <<"objectid", "LSOA11CD">>)
                => unit.out.val.outFields = "objectid, lsoa11cd"
    /\ params # None =>
          /\ DOMAIN params = {"outFields", "where", "outSR", "f", "geometryPrecision"}
          /\ params.f = "geojson"
          /\ params.where = args.where

C9_Witness ==
    /\ unit.fn = "_format_params"
    /\ unit.cols = [kind |-> "list", l |-> <<"objectid", "LSOA11CD">>]
    /\ unit.out.ok
    /\ unit.out.val.outFields = "objectid, lsoa11cd"

----------------------------------------------------------------------------
(* C10 *)

\* the check of the columns fails: a list with a name that is no field
ColsCheckFails(a) ==
    /\ a.cols.kind = "list"
    /\ \E n \in Elems(a.cols.l) : lower(n) \notin Elems(FieldsOf(a.geom_type))

\* position in CheckOrder of the first check that fails, 0 when none does
FirstFailing(a) ==
    IF a.geom_type \notin SupportedGeomTypes THEN 1
    ELSE IF a.layer_type \notin SupportedLayerTypes THEN 2
    ELSE IF a.crs \notin SupportedCrs THEN 3
    ELSE IF a.precision \notin SupportedPrecision THEN 4
    ELSE IF ColsCheckFails(a) THEN 5
    ELSE 0

\* C10: the checks are evaluated in the order geometry type, layer type, CRS,
\* precision, columns; the error raised is that of the first failing check,
\* no later check is evaluated, and the columns check is the last step before
\* the GET.
C10_CheckOrder ==
    /\ pc \notin {"idle", "unit_done"} =>
          checked = SubSeq(CheckOrder, 1, Len(checked))
    /\ (pc = "done" /\ FirstFailing(args) # 0) =>
          /\ result = Raise("ValueError", CheckOrder[FirstFailing(args)], 0)
          /\ Len(checked) = FirstFailing(args)
          /\ gets = 0
    /\ (pc = "done" /\ IsValueError(result)) => FirstFailing(args) # 0
    /\ (pc = "get" \/ gets > 0) => checked = CheckOrder

C10_Witness ==
    /\ pc = "done"
    /\ args.geom_type \in SupportedGeomTypes
    /\ args.layer_type \in SupportedLayerTypes
    /\ args.crs \notin SupportedCrs
    /\ args.precision \notin SupportedPrecision
    /\ ColsCheckFails(args)
    /\ result = Raise("ValueError", "crs", 0)
    /\ checked = <<"geom_type", "layer_type", "crs">>

====
